---- MODULE Spec2Model ----
(***************************************************************************)
(* Robrix image widgets: the modal ImageViewer (src/image_viewer.rs), the  *)
(* TextOrImage view (src/shared/text_or_image.rs), RobrixAutoFitImage      *)
(* (src/shared/auto_fit_image.rs) and the inline ImageViewer               *)
(* (src/shared/image_viewer.rs).                                           *)
(*                                                                         *)
(* A behaviour is the life of one widget instance: Init constructs an      *)
(* instance of one of the four widget types, and every step is one call    *)
(* the toolkit's event loop or the widget's owner makes on that instance.  *)
(* The widget types share no state: each keeps its fields in its own       *)
(* struct, reached through its own WidgetRef.                              *)
(***************************************************************************)
EXTENDS Integers, Sequences, FiniteSets, TLC

VARIABLES
    widget,     \* the type of the widget instance this behaviour follows
    iv,         \* modal ImageViewer: [visible, texture]
    fingers,    \* the finger on the modal ImageViewer: [down, captured]
    toi,        \* TextOrImage: its fields, the visibility and content of its views
    afi,        \* RobrixAutoFitImage: its fields, its inner image and measured areas
    inl,        \* inline ImageViewer: [visible, widgetref_image_uri_map]
    out,        \* what the call made last returned and the actions it emitted
    hist,       \* what the earlier calls were, as far as the claims refer to it
    last        \* the call made last: [op, arg, pre]

vars == <<widget, iv, fingers, toi, afi, inl, out, hist, last>>

\* the widgets' state, as remembered in last.pre
State == [iv |-> iv, fingers |-> fingers, toi |-> toi, afi |-> afi, inl |-> inl]

(***************************************************************************)
(* Bounds                                                                  *)
(***************************************************************************)
\* distinct pictures (pixel contents) an image's bytes can hold
NumImages == 2
\* distinct Matrix content URIs
NumUris == 2
\* widest view, in pixels
MaxWidth == 3
\* distinct widget uids
NumWidgets == 2
\* insert_date calls followed in one behaviour
MaxInserts == 2
\* longest batch of actions delivered in one Event::Actions
MaxBatch == 3

(***************************************************************************)
(* Values                                                                  *)
(***************************************************************************)
\* Option::None as the texture of an Image widget
NoTexture == 0

Pixels == 1 .. NumImages

\* Raw bytes of an image file, as carried by ImageViewerAction::Show: the
\* container format found in the header and the picture it encodes. The PNG
\* files of all the pictures, and a JPEG and a GIF file of the first.
Formats == {"png", "jpeg", "gif"}
Data ==
    {[format |-> "png", pixels |-> p] : p \in Pixels}
        \cup {[format |-> f, pixels |-> 1] : f \in Formats \ {"png"}}

\* utils::load_png_or_jpg(&image, cx, data): PNG and JPEG data is decoded and
\* becomes the image's texture; anything else is an error and leaves the image
\* as it was.
load_png_or_jpg(texture, data) ==
    IF data.format \in {"png", "jpeg"}
    THEN [ok |-> TRUE, texture |-> data.pixels]
    ELSE [ok |-> FALSE, texture |-> texture]

\* OwnedMxcUri values
Uris == 1 .. NumUris

\* Option::None
None == [none |-> TRUE]

\* what a call that returns () and emits no action leaves in out
Nothing == [result |-> "()", actions |-> <<>>]

\* A call, its argument and the state it was made in.
Call(op, arg, pre) == [op |-> op, arg |-> arg, pre |-> pre]

(***************************************************************************)
(* Modal ImageViewer (src/image_viewer.rs)                                 *)
(***************************************************************************)
\* live_design: visible: false, an Image without a source
ImageViewerInit == [visible |-> FALSE, texture |-> NoTexture]

\* No finger is down: nothing is captured.
FingersInit == [down |-> "none", captured |-> "none"]

\* The actions of a batch that the viewer reacts to: a click of close_button
\* and ImageViewerAction::Show with its bytes.
ViewerActions ==
    {[type |-> "Clicked"]} \cup {[type |-> "Show", data |-> d] : d \in Data}

RECURSIVE SeqsUpTo(_, _)
SeqsUpTo(S, n) ==
    IF n = 0 THEN {<<>>}
    ELSE LET shorter == SeqsUpTo(S, n - 1)
         IN  shorter \cup {Append(s, x) : s \in {t \in shorter : Len(t) = n - 1}, x \in S}

ViewerBatches == SeqsUpTo(ViewerActions, MaxBatch)

\* Where a finger lands: on the picture, on the rest of the viewer (the
\* background and its close button), or on neither of the viewer's areas.
Positions == {"image", "blank", "outside"}

ViewerEvents ==
    {[kind |-> "FingerDown", pos |-> p] : p \in Positions}
        \cup {[kind |-> "FingerUp", was_tap |-> b] : b \in BOOLEAN}
        \cup {[kind |-> "Actions", actions |-> as] : as \in ViewerBatches}
        \cup {[kind |-> "Draw"]}

InArea(pos, area) ==
    \/ area = "image_area" /\ pos = "image"
    \/ area = "whole_area" /\ pos \in {"image", "blank"}

\* event.hits(cx, area). A finger-down hits the first area tested that
\* contains it: that area captures the finger and marks the event handled, so
\* areas tested later get Hit::Nothing. A finger-up is reported only to the
\* area that captured the finger.
Hits(cx, event, area) ==
    CASE event.kind = "FingerDown" ->
            IF cx.handled = "none" /\ InArea(event.pos, area)
            THEN [hit |-> "FingerDown", cx |-> [handled |-> area, captured |-> area]]
            ELSE [hit |-> "Nothing", cx |-> cx]
      [] event.kind = "FingerUp" ->
            [hit |-> IF cx.captured = area THEN "FingerUp" ELSE "Nothing", cx |-> cx]
      [] OTHER -> [hit |-> "Nothing", cx |-> cx]

ImageViewer_open(s) == [s EXCEPT !.visible = TRUE]

ImageViewer_clear_texture(s) == [s EXCEPT !.texture = NoTexture]

\* close that leaves the texture in place
ImageViewer_close_KeepingTexture(s) == [s EXCEPT !.visible = FALSE]

ImageViewer_close(s) == ImageViewer_clear_texture([s EXCEPT !.visible = FALSE])

ImageViewer_load_with_data(s, data) ==
    [s EXCEPT !.texture = load_png_or_jpg(s.texture, data).texture]

\* the loop body without its set_texture(cx, None)
ImageViewer_ShowKeepingTexture(s, action) ==
    IF action.type = "Show"
    THEN ImageViewer_load_with_data(ImageViewer_open(s), action.data)
    ELSE s

\* the body of the loop of handle_actions, for one action
ImageViewer_Show(s, action) ==
    IF action.type = "Show"
    THEN ImageViewer_load_with_data(
             ImageViewer_open([s EXCEPT !.texture = NoTexture]), action.data)
    ELSE s

RECURSIVE ImageViewer_ForEach(_, _)
ImageViewer_ForEach(s, actions) ==
    IF actions = <<>> THEN s
    ELSE ImageViewer_ForEach(ImageViewer_Show(s, Head(actions)), Tail(actions))

\* button(close_button).clicked(actions)
Clicked(actions) == \E i \in 1 .. Len(actions) : actions[i].type = "Clicked"

\* handle_actions that closes after the loop over the actions
ImageViewer_handle_actions_CloseLast(s, actions) ==
    LET shown == ImageViewer_ForEach(s, actions)
    IN  IF Clicked(actions) THEN ImageViewer_close(shown) ELSE shown

ImageViewer_handle_actions(s, actions) ==
    ImageViewer_ForEach(IF Clicked(actions) THEN ImageViewer_close(s) ELSE s, actions)

\* The toolkit's finger state after the event: a finger-down records where it
\* landed and which area captured it, a finger-up releases the capture.
FingersAfter(fs, event, cx) ==
    CASE event.kind = "FingerDown" -> [down |-> event.pos, captured |-> cx.captured]
      [] event.kind = "FingerUp" -> FingersInit
      [] OTHER -> fs

\* The part of a batch that last keeps: its last click of close_button and its
\* last two Show actions, in the order the batch has them.
Kept(actions) ==
    {i \in 1 .. Len(actions) :
        Cardinality({j \in (i + 1) .. Len(actions) : actions[j].type = actions[i].type})
            < IF actions[i].type = "Show" THEN 2 ELSE 1}

RECURSIVE SubSeqAt(_, _, _)
SubSeqAt(seq, K, i) ==
    IF i > Len(seq) THEN <<>>
    ELSE (IF i \in K THEN <<seq[i]>> ELSE <<>>) \o SubSeqAt(seq, K, i + 1)

Seen(event) ==
    IF event.kind = "Actions"
    THEN [event EXCEPT !.actions = SubSeqAt(@, Kept(@), 1)]
    ELSE event

\* handle_event without the hit test of image_area that comes first
ImageViewer_handle_event_WholeAreaOnly(s, fs, event) ==
    LET cx0 == [handled |-> "none",
                captured |-> IF event.kind = "FingerDown" THEN "none" ELSE fs.captured]
        h2 == Hits(cx0, event, "whole_area")
        s1 == IF h2.hit = "FingerUp" /\ event.was_tap THEN ImageViewer_close(s) ELSE s
        s2 == IF event.kind = "Actions"
              THEN ImageViewer_handle_actions(s1, event.actions) ELSE s1
    IN  [iv |-> s2, fingers |-> FingersAfter(fs, event, h2.cx)]

ImageViewer_handle_event(s, fs, event) ==
    LET cx0 == [handled |-> "none",
                captured |-> IF event.kind = "FingerDown" THEN "none" ELSE fs.captured]
        h1 == Hits(cx0, event, "image_area")
        h2 == Hits(h1.cx, event, "whole_area")
        s1 == IF h2.hit = "FingerUp" /\ event.was_tap THEN ImageViewer_close(s) ELSE s
        s2 == IF event.kind = "Actions"
              THEN ImageViewer_handle_actions(s1, event.actions) ELSE s1
    IN  [iv |-> s2, fingers |-> FingersAfter(fs, event, h2.cx)]

ImageViewerHandleEvent ==
    /\ widget = "ImageViewer"
    /\ \E event \in ViewerEvents :
           LET r == ImageViewer_handle_event(iv, fingers, event)
           IN  /\ iv' = r.iv
               /\ fingers' = r.fingers
               /\ out' = Nothing
               /\ last' = Call("ImageViewer::handle_event", Seen(event), State)
               /\ UNCHANGED <<widget, toi, afi, inl, hist>>

ImageViewerNext == ImageViewerHandleEvent

(***************************************************************************)
(* TextOrImage (src/shared/text_or_image.rs)                               *)
(***************************************************************************)
\* live_design: text_view visible, image_view not; #[rust] fields at their
\* defaults (TextOrImageStatus::Text, (0, 0), None); an empty label and an
\* Image without a source.
TextOrImageInit ==
    [status |-> "Text",
     text_view_visible |-> TRUE,
     image_view_visible |-> FALSE,
     label |-> "",
     size_in_pixels |-> <<0, 0>>,
     image_value |-> None,
     texture |-> NoTexture]

\* the texts the owner shows
Texts == {"Loading..."}

\* (width, height) of a picture
ImageSize(pixels) == <<2 * pixels, pixels>>

\* What an image_set_function does with the ImageRef it is given: it sets the
\* texture and returns Ok(size of the picture), or fails with an error and
\* leaves the image as it was.
ImageSetFunctions ==
    {[ok |-> TRUE, pixels |-> p] : p \in Pixels} \cup {[ok |-> FALSE, error |-> "ImageError"]}

\* The event as event.hits(cx, image_area) reports it.
ImageHits ==
    {[kind |-> "FingerDown"], [kind |-> "Nothing"]}
        \cup {[kind |-> "FingerUp", is_over |-> o, is_primary_hit |-> p, was_tap |-> t] :
                 o \in BOOLEAN, p \in BOOLEAN, t \in BOOLEAN}

Click(uri) == [type |-> "TextOrImageAction::Click", uri |-> uri]

\* handle_event that emits on any finger-up over the image, tap or not
TextOrImage_handle_event_AnyFingerUp(s, hit) ==
    IF /\ s.status = "Image"
       /\ hit.kind = "FingerUp"
       /\ hit.is_over /\ hit.is_primary_hit
       /\ s.image_value # None
    THEN [toi |-> s, actions |-> <<Click(s.image_value.original_mxc_uri)>>]
    ELSE [toi |-> s, actions |-> <<>>]

TextOrImage_handle_event(s, hit) ==
    IF /\ s.status = "Image"
       /\ hit.kind = "FingerUp"
       /\ hit.is_over /\ hit.is_primary_hit /\ hit.was_tap
       /\ s.image_value # None
    THEN [toi |-> s, actions |-> <<Click(s.image_value.original_mxc_uri)>>]
    ELSE [toi |-> s, actions |-> <<>>]

\* show_text that also forgets the image's locator and bytes
TextOrImage_show_text_ForgettingImage(s, text) ==
    [s EXCEPT !.image_view_visible = FALSE,
              !.text_view_visible = TRUE,
              !.label = text,
              !.status = "Text",
              !.image_value = None]

TextOrImage_show_text(s, text) ==
    [s EXCEPT !.image_view_visible = FALSE,
              !.text_view_visible = TRUE,
              !.label = text,
              !.status = "Text"]

\* show_image that leaves text_view visible beside the image
TextOrImage_show_image_TextLeftVisible(s, f) ==
    IF f.ok
    THEN [toi |-> [s EXCEPT !.texture = f.pixels,
                            !.status = "Image",
                            !.size_in_pixels = ImageSize(f.pixels),
                            !.image_view_visible = TRUE],
          result |-> "Ok"]
    ELSE [toi |-> TextOrImage_show_text(s, "Failed to display image."),
          result |-> <<"Err", f.error>>]

TextOrImage_show_image(s, f) ==
    IF f.ok
    THEN [toi |-> [s EXCEPT !.texture = f.pixels,
                            !.status = "Image",
                            !.size_in_pixels = ImageSize(f.pixels),
                            !.image_view_visible = TRUE,
                            !.text_view_visible = FALSE],
          result |-> "Ok"]
    ELSE [toi |-> TextOrImage_show_text(s, "Failed to display image."),
          result |-> <<"Err", f.error>>]

TextOrImage_set_original_mxc_uri_and_timeline_image_data(s, uri, data) ==
    [s EXCEPT !.image_value = [original_mxc_uri |-> uri, timeline_image_data |-> data]]

TextOrImageHandleEvent ==
    /\ widget = "TextOrImage"
    /\ \E hit \in ImageHits :
           LET r == TextOrImage_handle_event(toi, hit)
           IN  /\ toi' = r.toi
               /\ out' = [result |-> "()", actions |-> r.actions]
               /\ last' = Call("TextOrImage::handle_event", hit, State)
               /\ UNCHANGED <<widget, iv, fingers, afi, inl, hist>>

TextOrImageShowText ==
    /\ widget = "TextOrImage"
    /\ \E text \in Texts :
           /\ toi' = TextOrImage_show_text(toi, text)
           /\ out' = Nothing
           /\ last' = Call("TextOrImage::show_text", text, State)
           /\ UNCHANGED <<widget, iv, fingers, afi, inl, hist>>

TextOrImageShowImage ==
    /\ widget = "TextOrImage"
    /\ \E f \in ImageSetFunctions :
           LET r == TextOrImage_show_image(toi, f)
           IN  /\ toi' = r.toi
               /\ out' = [result |-> r.result, actions |-> <<>>]
               /\ last' = Call("TextOrImage::show_image", f, State)
               /\ UNCHANGED <<widget, iv, fingers, afi, inl, hist>>

TextOrImageSetImageValue ==
    /\ widget = "TextOrImage"
    /\ \E uri \in Uris, data \in Data :
           /\ toi' = TextOrImage_set_original_mxc_uri_and_timeline_image_data(toi, uri, data)
           /\ out' = Nothing
           /\ hist' = [hist EXCEPT !.set_locator = uri]
           /\ last' = Call("TextOrImage::set_original_mxc_uri_and_timeline_image_data",
                           [uri |-> uri, data |-> data], State)
           /\ UNCHANGED <<widget, iv, fingers, afi, inl>>

TextOrImageNext ==
    \/ TextOrImageHandleEvent
    \/ TextOrImageShowText
    \/ TextOrImageShowImage
    \/ TextOrImageSetImageValue

(***************************************************************************)
(* RobrixAutoFitImage (src/shared/auto_fit_image.rs)                       *)
(***************************************************************************)
DVec2(x, y) == [x |-> x, y |-> y]

\* live_design: an inner Image with fit: Size and no source; #[rust] fields at
\* their defaults (ImageStatus::Size, None); nothing is drawn yet, so the
\* areas of the view and of the inner image are empty.
AutoFitInit ==
    [visible |-> TRUE,
     status |-> "Size",
     target_size |-> None,
     fit |-> "Size",
     texture |-> NoTexture,
     view_size |-> DVec2(0, 0),
     image_size |-> DVec2(0, 0)]

AutoFitEvents == {"Actions", "WindowGeomChange", "FingerDown"}

TargetSizes == {DVec2(x, 1) : x \in 1 .. MaxWidth}

\* The size the inner image is drawn at in a view w wide: its picture's own
\* size under fit: Size, the picture scaled to the view's width under
\* fit: Smallest, nothing without a texture.
DrawnImageSize(s, w) ==
    IF s.texture = NoTexture THEN DVec2(0, 0)
    ELSE LET size == ImageSize(s.texture)
         IN  IF s.fit = "Size" THEN DVec2(size[1], size[2])
             ELSE DVec2(w, (w * size[2]) \div size[1])

\* draw_walk in a view w wide: the areas take their measured sizes
AutoFit_draw_walk(s, w) ==
    LET drawn == DrawnImageSize(s, w)
    IN  [s EXCEPT !.image_size = drawn, !.view_size = DVec2(w, drawn.y)]

\* the comparison of handle_event with >= for >
AutoFit_new_status_OrEqual(current_size, target_size) ==
    IF current_size.x >= target_size.x THEN "Size" ELSE "Smallest"

AutoFit_new_status(current_size, target_size) ==
    IF current_size.x > target_size.x THEN "Size" ELSE "Smallest"

\* handle_event that applies the layout on every event it compares on
AutoFit_handle_event_ApplyAlways(s, event) ==
    IF s.texture = NoTexture THEN [afi |-> s, apply_over |-> <<>>]
    ELSE IF s.target_size # None
    THEN IF event \in {"Actions", "WindowGeomChange"}
         THEN LET new_status == AutoFit_new_status(s.view_size, s.target_size)
              IN  [afi |-> [s EXCEPT !.fit = new_status, !.status = new_status],
                   apply_over |-> <<new_status>>]
         ELSE [afi |-> s, apply_over |-> <<>>]
    ELSE [afi |-> [s EXCEPT !.target_size = s.image_size], apply_over |-> <<>>]

AutoFit_handle_event(s, event) ==
    IF s.texture = NoTexture THEN [afi |-> s, apply_over |-> <<>>]
    ELSE IF s.target_size # None
    THEN IF event \in {"Actions", "WindowGeomChange"}
         THEN LET new_status == AutoFit_new_status(s.view_size, s.target_size)
              IN  IF s.status # new_status
                  THEN [afi |-> [s EXCEPT !.fit = new_status, !.status = new_status],
                        apply_over |-> <<new_status>>]
                  ELSE [afi |-> s, apply_over |-> <<>>]
         ELSE [afi |-> s, apply_over |-> <<>>]
    ELSE [afi |-> [s EXCEPT !.target_size = s.image_size], apply_over |-> <<>>]

AutoFit_set_visible(s, visible) == [s EXCEPT !.visible = visible]

\* set_target_size without its has_texture test
AutoFit_set_target_size_Unchecked(s, target_size) ==
    [s EXCEPT !.target_size = target_size]

AutoFit_set_target_size(s, target_size) ==
    IF s.texture # NoTexture THEN [s EXCEPT !.target_size = target_size] ELSE s

AutoFitHandleEvent ==
    /\ widget = "RobrixAutoFitImage"
    /\ \E event \in AutoFitEvents :
           LET r == AutoFit_handle_event(afi, event)
           IN  /\ afi' = r.afi
               /\ out' = [result |-> "()", actions |-> <<>>, apply_over |-> r.apply_over]
               /\ last' = Call("RobrixAutoFitImage::handle_event", event, State)
               /\ UNCHANGED <<widget, iv, fingers, toi, inl, hist>>

AutoFitDrawWalk ==
    /\ widget = "RobrixAutoFitImage"
    /\ \E w \in 1 .. MaxWidth :
           /\ afi' = AutoFit_draw_walk(afi, w)
           /\ out' = Nothing
           /\ last' = Call("RobrixAutoFitImage::draw_walk", w, State)
           /\ UNCHANGED <<widget, iv, fingers, toi, inl, hist>>

\* the owner loads a picture into the inner image, or takes its texture away
AutoFitLoadTexture ==
    /\ widget = "RobrixAutoFitImage"
    /\ \E p \in Pixels \cup {NoTexture} :
           /\ afi' = [afi EXCEPT !.texture = p]
           /\ out' = Nothing
           /\ last' = Call("Image::set_texture", p, State)
           /\ UNCHANGED <<widget, iv, fingers, toi, inl, hist>>

AutoFitSetVisible ==
    /\ widget = "RobrixAutoFitImage"
    /\ \E visible \in BOOLEAN :
           /\ afi' = AutoFit_set_visible(afi, visible)
           /\ out' = Nothing
           /\ last' = Call("RobrixAutoFitImage::set_visible", visible, State)
           /\ UNCHANGED <<widget, iv, fingers, toi, inl, hist>>

AutoFitSetTargetSize ==
    /\ widget = "RobrixAutoFitImage"
    /\ \E target_size \in TargetSizes :
           /\ afi' = AutoFit_set_target_size(afi, target_size)
           /\ out' = Nothing
           /\ hist' = [hist EXCEPT !.set_target_size_called = TRUE,
                                    !.target_given =
                                        IF afi.texture # NoTexture THEN target_size ELSE @]
           /\ last' = Call("RobrixAutoFitImage::set_target_size", target_size, State)
           /\ UNCHANGED <<widget, iv, fingers, toi, inl>>

AutoFitNext ==
    \/ AutoFitHandleEvent
    \/ AutoFitDrawWalk
    \/ AutoFitLoadTexture
    \/ AutoFitSetVisible
    \/ AutoFitSetTargetSize

(***************************************************************************)
(* Inline ImageViewer (src/shared/image_viewer.rs)                         *)
(***************************************************************************)
WidgetUids == 1 .. NumWidgets

\* HashMap::new()
EmptyMap == [uid \in {} |-> 0]

\* a View is visible unless its live_design says otherwise; the map is empty
InlineViewerInit == [visible |-> TRUE, widgetref_image_uri_map |-> EmptyMap]

InlineActions == {[type |-> "Clicked"], [type |-> "Other"]}

InlineEvents ==
    {[kind |-> "Actions", actions |-> as] : as \in SeqsUpTo(InlineActions, MaxBatch)}
        \cup {[kind |-> "FingerDown"]}

\* HashMap::insert
MapInsert(map, key, value) ==
    [k \in DOMAIN map \cup {key} |-> IF k = key THEN value ELSE map[k]]

\* an insert that keeps the value a key already has
MapInsertIfAbsent(map, key, value) ==
    [k \in DOMAIN map \cup {key} |-> IF k \in DOMAIN map THEN map[k] ELSE value]

InlineViewer_handle_actions(s, actions) ==
    IF Clicked(actions) THEN [s EXCEPT !.visible = FALSE] ELSE s

InlineViewer_handle_event(s, event) ==
    IF event.kind = "Actions" THEN InlineViewer_handle_actions(s, event.actions) ELSE s

\* insert_date built on MapInsertIfAbsent
InlineViewer_insert_date_IfAbsent(s, text_or_image_uid, mx_uri) ==
    [s EXCEPT !.widgetref_image_uri_map = MapInsertIfAbsent(@, text_or_image_uid, mx_uri)]

InlineViewer_insert_date(s, text_or_image_uid, mx_uri) ==
    [s EXCEPT !.widgetref_image_uri_map = MapInsert(@, text_or_image_uid, mx_uri)]

InlineViewerHandleEvent ==
    /\ widget = "shared::ImageViewer"
    /\ \E event \in InlineEvents :
           /\ inl' = InlineViewer_handle_event(inl, event)
           /\ out' = Nothing
           /\ last' = Call("shared::ImageViewer::handle_event", event, State)
           /\ UNCHANGED <<widget, iv, fingers, toi, afi, hist>>

InlineViewerInsertDate ==
    /\ widget = "shared::ImageViewer"
    /\ \E uid \in WidgetUids, uri \in Uris :
           /\ Len(hist.insert_log) < MaxInserts
           /\ inl' = InlineViewer_insert_date(inl, uid, uri)
           /\ out' = Nothing
           /\ hist' = [hist EXCEPT !.insert_log = Append(@, [uid |-> uid, uri |-> uri])]
           /\ last' = Call("shared::ImageViewer::insert_date", [uid |-> uid, uri |-> uri], State)
           /\ UNCHANGED <<widget, iv, fingers, toi, afi>>

InlineViewerNext ==
    \/ InlineViewerHandleEvent
    \/ InlineViewerInsertDate

(***************************************************************************)
(* Specification                                                           *)
(***************************************************************************)
Widgets == {"ImageViewer", "TextOrImage", "RobrixAutoFitImage", "shared::ImageViewer"}

\* no set_original_mxc_uri_and_timeline_image_data, set_target_size or
\* insert_date call yet; target_given is the size of the latest set_target_size
\* call made while the inner image had a texture
HistInit ==
    [set_locator |-> None,
     set_target_size_called |-> FALSE,
     target_given |-> None,
     insert_log |-> <<>>]

Init ==
    /\ widget \in Widgets
    /\ iv = ImageViewerInit
    /\ fingers = FingersInit
    /\ toi = TextOrImageInit
    /\ afi = AutoFitInit
    /\ inl = InlineViewerInit
    /\ out = Nothing
    /\ hist = HistInit
    /\ last = Call("new", widget, State)

Next ==
    \/ ImageViewerNext
    \/ TextOrImageNext
    \/ AutoFitNext
    \/ InlineViewerNext

Spec == Init /\ [][Next]_vars

(***************************************************************************)
(* Claims about the modal ImageViewer                                      *)
(***************************************************************************)
ViewerHandled(kind) ==
    /\ widget = "ImageViewer"
    /\ last.op = "ImageViewer::handle_event"
    /\ last.arg.kind = kind

HasShow(actions) == \E i \in 1 .. Len(actions) : actions[i].type = "Show"

\* the data of the last Show action of a batch that has one
LastShow(actions) ==
    LET i == CHOOSE k \in 1 .. Len(actions) :
                 /\ actions[k].type = "Show"
                 /\ \A j \in (k + 1) .. Len(actions) : actions[j].type # "Show"
    IN  actions[i].data

Closed == ~iv.visible /\ iv.texture = NoTexture

\* a tap on the viewer's area: the finger that whole_area captured goes up as a tap
TappedWholeArea ==
    /\ ViewerHandled("FingerUp")
    /\ last.arg.was_tap
    /\ last.pre.fingers.captured = "whole_area"

\* C1: a modal ImageViewer that is not visible has no texture, and handling a
\* tap on the viewer's area, or a close-button click with no Show action after
\* it, leaves the viewer not visible with the texture cleared.
C1_ClosedViewerHasNoTexture ==
    widget = "ImageViewer" =>
        /\ ~iv.visible => iv.texture = NoTexture
        /\ TappedWholeArea => Closed
        /\ (/\ ViewerHandled("Actions")
            /\ Clicked(last.arg.actions)
            /\ ~HasShow(last.arg.actions)) => Closed

C1_Witness ==
    /\ last.pre.iv.visible
    /\ last.pre.iv.texture # NoTexture
    /\ \/ TappedWholeArea
       \/ ViewerHandled("Actions") /\ Clicked(last.arg.actions)
    /\ Closed

\* C2: after handle_actions processes a Show(data) action the viewer is
\* visible, and its texture is the image decoded from data when decoding
\* succeeds and empty when it fails; the image displayed before never stays.
C2_ShowReplacesTexture ==
    (ViewerHandled("Actions") /\ HasShow(last.arg.actions)) =>
        LET data == LastShow(last.arg.actions)
        IN  /\ iv.visible
            /\ iv.texture = IF data.format \in {"png", "jpeg"}
                             THEN data.pixels ELSE NoTexture

C2_Witness ==
    /\ ViewerHandled("Actions")
    /\ HasShow(last.arg.actions)
    /\ LastShow(last.arg.actions).format = "gif"
    /\ last.pre.iv.visible
    /\ last.pre.iv.texture # NoTexture
    /\ iv.visible
    /\ iv.texture = NoTexture

\* C10: a tap on the blank area of the visible viewer closes it, and a tap on
\* the image area leaves the viewer visible with its texture unchanged.
C10_TapTargeting ==
    (ViewerHandled("FingerUp") /\ last.arg.was_tap /\ last.pre.iv.visible) =>
        /\ last.pre.fingers.down = "blank" => Closed
        /\ last.pre.fingers.down = "image" => iv = last.pre.iv

C10_Witness ==
    /\ ViewerHandled("FingerUp")
    /\ last.arg.was_tap
    /\ last.pre.fingers.down = "image"
    /\ iv.visible
    /\ iv.texture # NoTexture

(***************************************************************************)
(* Claims about TextOrImage                                                *)
(***************************************************************************)
TextOrImageCalled(op) == widget = "TextOrImage" /\ last.op = op

FailedShowImage == TextOrImageCalled("TextOrImage::show_image") /\ ~last.arg.ok

\* C3: if image_set_function returns an error, show_image makes no change to
\* the TextOrImage and returns the error to the caller.
C3_FailedShowImageChangesNothing ==
    FailedShowImage =>
        /\ toi = last.pre.toi
        /\ out.result = <<"Err", last.arg.error>>

\* the event is a primary tap released over the image
PrimaryTapOverImage(hit) ==
    hit.kind = "FingerUp" /\ hit.is_over /\ hit.is_primary_hit /\ hit.was_tap

\* C4: handle_event emits Click exactly when the status is Image, image_value
\* is present and the event is a primary tap released over the image; the
\* action carries the locator of the most recent
\* set_original_mxc_uri_and_timeline_image_data call; no other call emits it.
C4_ClickEmission ==
    widget = "TextOrImage" =>
        IF /\ last.op = "TextOrImage::handle_event"
           /\ last.pre.toi.status = "Image"
           /\ last.pre.toi.image_value # None
           /\ PrimaryTapOverImage(last.arg)
        THEN out.actions = <<Click(hist.set_locator)>>
        ELSE out.actions = <<>>

C4_Witness ==
    /\ TextOrImageCalled("TextOrImage::handle_event")
    /\ PrimaryTapOverImage(last.arg)
    /\ toi.status = "Image"
    /\ out.actions = <<Click(hist.set_locator)>>

\* image_value holds the bytes of the picture the image displays
ValueOfDisplayedImage(s) ==
    s.image_value # None /\ s.image_value.timeline_image_data.pixels = s.texture

\* C5: where the status is Image and image_value is present, image_value
\* belongs to the image installed by the most recent successful show_image:
\* a show_image that succeeds on a TextOrImage whose image_value belonged to
\* the image displayed leaves no image_value of another image behind.
C5_ValueOfDisplayedImage ==
    (/\ TextOrImageCalled("TextOrImage::show_image")
     /\ last.arg.ok
     /\ last.pre.toi.status = "Image"
     /\ ValueOfDisplayedImage(last.pre.toi)
     /\ toi.image_value # None) => ValueOfDisplayedImage(toi)

(***************************************************************************)
(* Claims about RobrixAutoFitImage                                         *)
(***************************************************************************)
\* handle_event has processed an Actions or WindowGeomChange event while the
\* image had a texture
AutoFitFitted ==
    /\ widget = "RobrixAutoFitImage"
    /\ last.op = "RobrixAutoFitImage::handle_event"
    /\ last.arg \in {"Actions", "WindowGeomChange"}
    /\ last.pre.afi.texture # NoTexture

FitRule(current_size, target_size) ==
    IF current_size.x > target_size.x THEN "Size" ELSE "Smallest"

\* C6 as stated: after handle_event processes an Actions or WindowGeomChange
\* event while the image has a texture, status is Size if the view is
\* strictly wider than the image's target width and Smallest otherwise; the
\* target width is the one the widget holds when the event is done.
C6_FitRuleOnEveryEvent ==
    AutoFitFitted => afi.status = FitRule(last.pre.afi.view_size, afi.target_size)

\* C6, amended: the same, for an event that finds target_size already
\* present.
C6_FitRuleWithTarget ==
    (AutoFitFitted /\ last.pre.afi.target_size # None) =>
        afi.status = FitRule(last.pre.afi.view_size, last.pre.afi.target_size)

C6_Witness ==
    /\ AutoFitFitted
    /\ last.pre.afi.target_size # None
    /\ last.pre.afi.view_size.x = last.pre.afi.target_size.x
    /\ last.pre.afi.status = "Size"
    /\ afi.status = "Smallest"

\* C7: if set_target_size is never called, the target size is the original
\* size of the image the widget currently holds.
C7_DefaultTargetIsOriginalSize ==
    (/\ widget = "RobrixAutoFitImage"
     /\ ~hist.set_target_size_called
     /\ afi.texture # NoTexture
     /\ afi.target_size # None) =>
        afi.target_size = DVec2(ImageSize(afi.texture)[1], ImageSize(afi.texture)[2])

(***************************************************************************)
(* Claims about the inline ImageViewer                                     *)
(***************************************************************************)
\* the uids of the insert_date calls made so far
Inserted == {hist.insert_log[i].uid : i \in 1 .. Len(hist.insert_log)}

\* the locator of the most recent insert_date call for uid
MostRecent(uid) ==
    LET i == CHOOSE k \in 1 .. Len(hist.insert_log) :
                 /\ hist.insert_log[k].uid = uid
                 /\ \A j \in (k + 1) .. Len(hist.insert_log) : hist.insert_log[j].uid # uid
    IN  hist.insert_log[i].uri

InlineClosed ==
    /\ widget = "shared::ImageViewer"
    /\ last.op = "shared::ImageViewer::handle_event"
    /\ last.arg.kind = "Actions"
    /\ Clicked(last.arg.actions)

\* C8: widgetref_image_uri_map maps each widget uid ever inserted to the
\* locator of the most recent insert_date for it; no entry is ever removed;
\* a close-button click makes the viewer not visible and leaves the map as it
\* was.
C8_MapHoldsMostRecentInsert ==
    widget = "shared::ImageViewer" =>
        /\ DOMAIN inl.widgetref_image_uri_map = Inserted
        /\ \A uid \in Inserted : inl.widgetref_image_uri_map[uid] = MostRecent(uid)
        /\ InlineClosed =>
               /\ ~inl.visible
               /\ inl.widgetref_image_uri_map = last.pre.inl.widgetref_image_uri_map

C8_Witness ==
    /\ InlineClosed
    /\ ~inl.visible
    /\ \E i, j \in 1 .. Len(hist.insert_log) :
           /\ i < j
           /\ hist.insert_log[i].uid = hist.insert_log[j].uid
           /\ hist.insert_log[i].uri # hist.insert_log[j].uri
           /\ inl.widgetref_image_uri_map[hist.insert_log[j].uid] = hist.insert_log[j].uri

(***************************************************************************)
(* Claims about the state the shared widgets hold                          *)
(***************************************************************************)
\* the widget-held fields that the call made last has changed
ChangedFields ==
    {f \in {"status", "image_value"} :
        widget = "TextOrImage" /\ toi[f] # last.pre.toi[f]}
    \cup {f \in {"status", "target_size"} :
        widget = "RobrixAutoFitImage" /\ afi[f] # last.pre.afi[f]}
    \cup {f \in {"widgetref_image_uri_map"} :
        widget = "shared::ImageViewer" /\ inl[f] # last.pre.inl[f]}

HandleEventOf(w) ==
    CASE w = "TextOrImage" -> "TextOrImage::handle_event"
      [] w = "RobrixAutoFitImage" -> "RobrixAutoFitImage::handle_event"
      [] w = "shared::ImageViewer" -> "shared::ImageViewer::handle_event"
      [] OTHER -> "ImageViewer::handle_event"

\* C9 as stated: no operation other than the widget's handle_event changes
\* the TextOrImage status and image_value, the RobrixAutoFitImage status and
\* target_size, or the inline ImageViewer's map.
C9_OnlyHandleEventMutates ==
    ChangedFields # {} => last.op = HandleEventOf(widget)

\* the methods of the widget that write the field
WritersOf(w, f) ==
    CASE w = "TextOrImage" /\ f = "status" ->
            {"TextOrImage::show_text", "TextOrImage::show_image"}
      [] w = "TextOrImage" /\ f = "image_value" ->
            {"TextOrImage::set_original_mxc_uri_and_timeline_image_data"}
      [] w = "RobrixAutoFitImage" /\ f = "status" ->
            {"RobrixAutoFitImage::handle_event"}
      [] w = "RobrixAutoFitImage" /\ f = "target_size" ->
            {"RobrixAutoFitImage::handle_event", "RobrixAutoFitImage::set_target_size"}
      [] w = "shared::ImageViewer" /\ f = "widgetref_image_uri_map" ->
            {"shared::ImageViewer::insert_date"}

\* C9, amended: each field is changed only by methods of the widget that
\* holds it: the TextOrImage status by show_text and show_image, image_value
\* by set_original_mxc_uri_and_timeline_image_data, the RobrixAutoFitImage
\* status by its handle_event, target_size by its handle_event and
\* set_target_size, the inline ImageViewer's map by insert_date.
C9_OnlyOwnMethodsMutate ==
    \A f \in ChangedFields : last.op \in WritersOf(widget, f)

C9_Witness ==
    /\ widget = "TextOrImage"
    /\ last.op = "TextOrImage::show_text"
    /\ ChangedFields = {"status"}
    /\ toi.image_value # None

AutoFitHandled ==
    widget = "RobrixAutoFitImage" /\ last.op = "RobrixAutoFitImage::handle_event"

\* the event is one handle_event compares on, and the status computed from
\* the widths differs from the stored one
ComputedStatusDiffers ==
    /\ AutoFitFitted
    /\ last.pre.afi.target_size # None
    /\ FitRule(last.pre.afi.view_size, last.pre.afi.target_size) # last.pre.afi.status

\* C12: the fit mode applied to the inner image equals the status field in
\* every reachable state, and apply_over is invoked only on an event where
\* the computed status differs from the stored one (once, with the new
\* status), so an event with the same width relation changes no layout.
C12_FitFollowsStatus ==
    widget = "RobrixAutoFitImage" =>
        /\ afi.fit = afi.status
        /\ AutoFitHandled =>
               /\ out.apply_over # <<>> <=> ComputedStatusDiffers
               /\ out.apply_over # <<>> => out.apply_over = <<afi.status>>
               /\ out.apply_over = <<>> => afi.fit = last.pre.afi.fit

C12_Witness ==
    /\ AutoFitFitted
    /\ last.pre.afi.status = "Smallest"
    /\ last.pre.afi.fit = "Smallest"
    /\ FitRule(last.pre.afi.view_size, last.pre.afi.target_size) = "Smallest"
    /\ out.apply_over = <<>>
    /\ afi.fit = "Smallest"

\* the call made last found the inner image without a texture
CalledWithoutTexture ==
    /\ widget = "RobrixAutoFitImage"
    /\ last.op \in {"RobrixAutoFitImage::handle_event",
                     "RobrixAutoFitImage::set_target_size"}
    /\ last.pre.afi.texture = NoTexture

ClickedAndShown ==
    /\ ViewerHandled("Actions")
    /\ Clicked(last.arg.actions)
    /\ HasShow(last.arg.actions)

\* C14: when one batch holds both a close-button click and Show actions, the
\* close is applied first and the Show actions after it in batch order: after
\* the batch the viewer is visible and its texture is the image decoded from
\* the last Show of the batch, or empty if that decode fails, wherever in the
\* batch the click is; no earlier Show's image remains.
C14_CloseBeforeShows ==
    ClickedAndShown =>
        LET final == load_png_or_jpg(NoTexture, LastShow(last.arg.actions))
        IN  /\ iv.visible
            /\ final.ok => iv.texture = LastShow(last.arg.actions).pixels
            /\ ~final.ok => iv.texture = NoTexture

\* a click after two Show actions, the first decodable and the second not, on
\* a viewer that was showing an image
C14_Witness ==
    /\ ClickedAndShown
    /\ Len(last.arg.actions) = 3
    /\ last.arg.actions[1].type = "Show"
    /\ last.arg.actions[1].data.format = "png"
    /\ last.arg.actions[2].type = "Show"
    /\ last.arg.actions[2].data.format = "gif"
    /\ last.arg.actions[3].type = "Clicked"
    /\ last.pre.iv.visible
    /\ last.pre.iv.texture # NoTexture
    /\ iv.visible
    /\ iv.texture = NoTexture

====
